---- MODULE Spec2Model ----
(***************************************************************************)
(* Model of the medical-telegram-warehouse ingestion pipeline:             *)
(*   dagster_pipeline/pipeline.py   the five ops, their retry policies and *)
(*                                  the three jobs that wire them          *)
(*   src/scraper.py, src/datalake.py   the raw partition written by a run  *)
(*   scripts/load_raw_to_postgres.py   the conflict-suppressing insert     *)
(*   scripts/load_image_detections.py  the plain detection insert          *)
(* The Dagster executor is modelled by what the job definitions ask of it: *)
(* an op starts once the op whose output it consumes has succeeded, an op  *)
(* that raises is re-executed whole while its RetryPolicy allows, and an   *)
(* op whose retries are exhausted fails the run.                           *)
(***************************************************************************)
EXTENDS Integers, Sequences, FiniteSets, TLC

VARIABLES
    HAS_SCRAPER,      \* pipeline.py:31-36  import of the scraper succeeded
    HAS_LOADER,       \* pipeline.py:44-53  import of the loader succeeded
    HAS_YOLO,         \* pipeline.py:63-72  import of the detector succeeded
    job,              \* the job this run executes
    run,              \* ordinal of the current run
    status,           \* op -> pending | running | retry_wait | succeeded | failed
    attempts,         \* op -> number of executions started in this run
    input,            \* op -> the summary handed to its latest execution
    output,           \* op -> the summary it returned
    partition,        \* channel -> records of today's <channel>.json (<<>>: no file)
    manifest,         \* today's _manifest.json payload, or NoManifest
    archive,          \* number of older date partitions under raw_dir
    written,          \* channels whose JSON file the Scrape op of this run wrote
    images_dir,       \* data/raw/images exists
    telegram_messages,\* raw.telegram_messages: row -> number of copies
    image_detections, \* raw.image_detections: category -> number of rows
    presented,        \* records handed to the loader by the Load op of this run
    file_errors,      \* the Load op of this run logged "Failed to load" for a file
    db_connects,      \* op -> warehouse connections it acquired in this run
    dbt_rc,           \* sub-command -> exit code in the latest Transform execution
    detector_calls,   \* detector invocations in this run
    transform_status, \* dbt_status the Transform op of this run returned (None: none yet)
    db_open,          \* op -> warehouse connections it holds open
    dbt_log,          \* sub-commands the latest Transform execution issued, in order
    cwd,              \* the working directory of the process
    frame_loads,      \* rows per category of a result frame -> times
                      \* load_yolo_results was executed on such a frame
    loaded_files,     \* file content -> files the Load op of this run loaded
    failed_files,     \* the files the Load op of this run failed to load
    \* src/scraper.py, one run of run_scraper step by step
    pc,               \* where run_scraper is: get_entity | iter_messages | write | finish | done
    ch,               \* index in `channels` of the channel of the for loop
    offered,          \* channel -> posts the upstream holds for it
    enumerated,       \* channel -> posts iter_messages has yielded
    messages,         \* the `messages` list of the scrape_channel call in progress
    counts,           \* all_counts: channel -> len(msgs), for the channels done
    combined_rows,    \* the rows gathered for the combined export
    csv,              \* processed/<date>/telegram_messages.csv (<<>>: no file)
    signalled,        \* seconds of wait asked for by the throttle signals raised
    slept,            \* seconds slept in answer to a throttle signal
    at_signal,        \* channel -> what the except clause of scrape_channel caught
    raised,           \* the exception that left run_scraper (None: none)
    entity,           \* what get_entity resolved for the channel in progress
    last_post,        \* the post of the latest pass through the loop body, and
                      \* what its media download and the body did
    \* src/datalake.py, the manifests of the raw store
    datalake,         \* date -> payload of raw/telegram_messages/<date>/_manifest.json
    last_write,       \* date -> arguments of the latest write_manifest for it, and the
                      \* channels of the manifest it replaced
    processed,        \* date -> processed/telegram_messages/<date>: whether the
                      \* directory exists, and the rows of its export (<<>>: no file)
    export_call,      \* arguments and result of the latest write_combined_csv, and
                      \* the export it found
    \* scripts/load_raw_to_postgres.py, one call of normalize_record
    raw_record,       \* the mapping passed to normalize_record
    normalized        \* what the call returned or raised (Pending: not called)

vars == <<HAS_SCRAPER, HAS_LOADER, HAS_YOLO, job, run, status, attempts, input,
          output, partition, manifest, archive, written, images_dir, telegram_messages,
          image_detections, presented, file_errors, db_connects, dbt_rc,
          detector_calls, transform_status, db_open, dbt_log, cwd, frame_loads,
          loaded_files, failed_files, pc, ch, offered, enumerated, messages,
          counts, combined_rows, csv, signalled, slept, at_signal, raised,
          entity, last_post, datalake, last_write, processed, export_call,
          raw_record, normalized>>

\* The state of the step-by-step scraper and of the manifest store.
scraper_vars == <<pc, ch, offered, enumerated, messages, counts, combined_rows,
                  csv, signalled, slept, at_signal, raised, entity, last_post>>

datalake_vars == <<datalake, last_write, processed, export_call>>

normalizer_vars == <<raw_record, normalized>>

\* What an op of the pipeline leaves alone besides its own frame.
unit_vars == <<scraper_vars, datalake_vars, normalizer_vars>>

\* The state of the pipeline run, left alone by the scraper and the store.
pipeline_vars == <<HAS_SCRAPER, HAS_LOADER, HAS_YOLO, job, run, status, attempts,
                   input, output, archive, written, images_dir, telegram_messages,
                   image_detections, presented, file_errors, db_connects, dbt_rc,
                   detector_calls, transform_status, db_open, dbt_log, cwd,
                   frame_loads, loaded_files, failed_files>>

(***************************************************************************)
(* Bounds of the model                                                     *)
(***************************************************************************)
MaxPosts == 1        \* posts a channel offers to one enumeration
MaxRuns == 2         \* pipeline runs in one behaviour
MaxDetections == 1   \* rows of the detector's result frame

(***************************************************************************)
(* Program constants                                                       *)
(***************************************************************************)
SCRAPE_MAX_RETRIES == 3
LOAD_MAX_RETRIES == 3
DBT_MAX_RETRIES == 3
YOLO_MAX_RETRIES == 2
FASTAPI_MAX_RETRIES == 0
FILE_LIMIT == 50

channels == <<"@cheMed123", "@lobelia4cosmetics">>

Channels == {channels[i] : i \in 1..Len(channels)}

Categories == {"promotional", "product_display"}

\* The rows of a result frame of the detector: one category per image.
FrameRows == UNION {[1..n -> Categories] : n \in 0..MaxDetections}

\* The rows of each category in a result frame.
FrameCounts(rows) ==
    [k \in Categories |-> Cardinality({i \in 1..Len(rows) : rows[i] = k})]

FrameCountsSet == {FrameCounts(rows) : rows \in FrameRows}

\* os.getcwd() when the process was launched, and the dbt project directory.
launch_dir == "launch_dir"

dbt_project_dir == "medical_warehouse"

None == "None"

\* The transform sub-commands, in the order of the `commands` list.
commands == <<"run", "test", "docs">>

Commands == {"run", "test", "docs"}

\* Marks a sub-command that the latest Transform execution did not issue.
NotIssued == 0 - 1

NoSummary == [none |-> TRUE]

NoManifest == [none |-> TRUE]

Ops == {"scrape_telegram_data", "dummy_scrape_op", "load_raw_to_postgres",
        "run_dbt_transformations", "run_yolo_enrichment", "start_fastapi"}

Jobs == {"medical_telegram_pipeline", "daily_scrape_job", "analysis_job"}


(***************************************************************************)
(* Job graphs: the ops of each job in the order their data dependencies    *)
(* impose (each op takes the output of the op before it)                   *)
(***************************************************************************)
JobOps(j) ==
    CASE j = "medical_telegram_pipeline" ->
            <<"scrape_telegram_data", "load_raw_to_postgres",
              "run_dbt_transformations", "run_yolo_enrichment", "start_fastapi">>
      [] j = "daily_scrape_job" ->
            <<"scrape_telegram_data", "load_raw_to_postgres",
              "run_dbt_transformations">>
      [] j = "analysis_job" ->
            <<"dummy_scrape_op", "load_raw_to_postgres",
              "run_dbt_transformations", "run_yolo_enrichment">>

InJob(j, op) == \E i \in 1..Len(JobOps(j)) : JobOps(j)[i] = op

PositionOf(j, op) == CHOOSE i \in 1..Len(JobOps(j)) : JobOps(j)[i] = op

\* A wiring slip: the enrichment op takes the Load output.
UpstreamMiswired(j, op) ==
    IF PositionOf(j, op) = 1 THEN "none"
    ELSE IF op = "run_yolo_enrichment" THEN "load_raw_to_postgres"
    ELSE JobOps(j)[PositionOf(j, op) - 1]

\* The op whose output `op` takes as its argument ("none" for the first op).
Upstream(j, op) ==
    IF PositionOf(j, op) = 1 THEN "none" ELSE JobOps(j)[PositionOf(j, op) - 1]

\* RetryPolicy(max_retries=...) of each op; an op without a policy is not retried.
max_retries(op) ==
    CASE op = "scrape_telegram_data" -> SCRAPE_MAX_RETRIES
      [] op = "load_raw_to_postgres" -> LOAD_MAX_RETRIES
      [] op = "run_dbt_transformations" -> DBT_MAX_RETRIES
      [] op = "run_yolo_enrichment" -> YOLO_MAX_RETRIES
      [] OTHER -> FASTAPI_MAX_RETRIES

Range(f) == {f[x] : x \in DOMAIN f}

\* dict.get(key, default)
Get(d, key, default) == IF key \in DOMAIN d THEN d[key] ELSE default

(***************************************************************************)
(* Raw store                                                               *)
(***************************************************************************)
\* TelegramMessage.to_dict(), restricted to the columns the warehouse key and
\* the channel attribution rest on.
Msg(c, i) == [message_id |-> i, channel_username |-> c]

\* The records of one channel as enumerated newest-first.
ChannelJson(c, n) == [k \in 1..n |-> Msg(c, n + 1 - k)]

\* What json.load returns: a list of records, or a single object.
ListData(items) == [kind |-> "list", items |-> items]

\* The manifest payload as the loader sees it: an object without message keys.
ManifestData == [kind |-> "dict", items |-> <<[date |-> "date"]>>]

FileDatas ==
    {ListData(ChannelJson(c, n)) : c \in Channels, n \in 1..MaxPosts}
        \cup {ManifestData}

\* No file of any content.
NoFiles == [d \in FileDatas |-> 0]

\* Each older date partition holds one channel file and its manifest.
ArchivedData == ListData(ChannelJson(channels[1], 1))

\* raw_dir.rglob("*.json"): every JSON file below raw/telegram_messages, of any
\* date, manifests included, as content -> number of files.
json_files(part, man, arch) ==
    [d \in FileDatas |->
        Cardinality({c \in Channels : part[c] # <<>> /\ ListData(part[c]) = d})
        + (IF d = ManifestData /\ man # NoManifest THEN 1 ELSE 0)
        + (IF d = ManifestData THEN arch ELSE 0)
        + (IF d = ArchivedData THEN arch ELSE 0)]

RECURSIVE SumOver(_, _)
SumOver(f, S) ==
    IF S = {} THEN 0
    ELSE LET x == CHOOSE y \in S : TRUE IN f[x] + SumOver(f, S \ {x})

Sum(f) == SumOver(f, DOMAIN f)

Min(a, b) == IF a < b THEN a ELSE b

(***************************************************************************)
(* scripts/load_raw_to_postgres.py                                         *)
(***************************************************************************)
\* normalize_record on the tracked columns: an absent or null message_id
\* becomes 0, an absent channel_username becomes None.
normalize_record(record) ==
    [message_id |-> Get(record, "message_id", 0),
     channel_username |-> Get(record, "channel_username", None)]

\* load_json: a single object is wrapped in a list, each record normalized.
load_json(data) == [k \in 1..Len(data.items) |-> normalize_record(data.items[k])]

AllRows ==
    {Msg(c, i) : c \in Channels, i \in 1..MaxPosts}
        \cup {normalize_record(ManifestData.items[1])}

EmptyTable == [r \in AllRows |-> 0]

\* INSERT without conflict clause.
InsertPlain(table, r) == [table EXCEPT ![r] = @ + 1]

\* INSERT ... ON CONFLICT (message_id) DO NOTHING
Insert(table, r) ==
    IF \E q \in AllRows : table[q] > 0 /\ q.message_id = r.message_id
    THEN table
    ELSE [table EXCEPT ![r] = @ + 1]

RECURSIVE execute_batch(_, _)
execute_batch(table, records) ==
    IF records = <<>> THEN table
    ELSE execute_batch(Insert(table, Head(records)), Tail(records))

\* The loader: run the insert over the batch, report len(records).
load_to_raw(table, data) ==
    [table |-> execute_batch(table, load_json(data)),
     records |-> Len(load_json(data))]

RowCount(table) == Sum(table)

(***************************************************************************)
(* normalize_record over JSON values of every type                         *)
(***************************************************************************)
\* The values json.load may put under a key: null, an integer, a string (as
\* its characters), the floats Infinity and NaN, a list.
JNull == [t |-> "null"]

JInt(n) == [t |-> "int", v |-> n]

JStr(chars) == [t |-> "str", v |-> chars]

JFloat(name) == [t |-> "float", v |-> name]

JList == [t |-> "list"]

JsonValues ==
    {JNull, JList, JFloat("Infinity"), JFloat("NaN")}
        \cup {JInt(n) : n \in (0 - MaxPosts)..MaxPosts}
        \cup {JStr(<<>>), JStr(<<"7">>), JStr(<<"-", "7">>), JStr(<<"a">>)}

\* The keys of the mappings normalize_record is tried on: a numeric column, a
\* key that is renamed, and the key it is renamed to.
InputKeys == {"views", "date", "message_date"}

Records == UNION {[S -> JsonValues] : S \in SUBSET InputKeys}

mapping ==
    [text |-> "message_text", file_path |-> "media_file",
     date |-> "message_date", url |-> "message_url"]

required_keys ==
    <<"message_id", "channel_id", "channel_username", "channel_title",
      "message_date", "message_text", "views", "forwards", "replies",
      "media_type", "media_file", "message_url", "scraped_at">>

int_fields == {"views", "forwards", "replies", "channel_id", "message_id"}

ts_fields == {"message_date", "scraped_at"}

DigitValue ==
    "0" :> 0 @@ "1" :> 1 @@ "2" :> 2 @@ "3" :> 3 @@ "4" :> 4 @@
    "5" :> 5 @@ "6" :> 6 @@ "7" :> 7 @@ "8" :> 8 @@ "9" :> 9

RECURSIVE Decimal(_)
Decimal(digits) ==
    IF digits = <<>> THEN 0
    ELSE Decimal(SubSeq(digits, 1, Len(digits) - 1)) * 10 + DigitValue[digits[Len(digits)]]

\* int(str): an optional sign and decimal digits, ValueError otherwise
\* (surrounding blanks and digit-group underscores are not modelled).
ParseInt(chars) ==
    LET signed == chars # <<>> /\ Head(chars) \in {"-", "+"}
        digits == IF signed THEN Tail(chars) ELSE chars
    IN  IF digits = <<>> \/ \E i \in 1..Len(digits) : digits[i] \notin DOMAIN DigitValue
        THEN [ok |-> FALSE]
        ELSE [ok |-> TRUE,
              n |-> IF signed /\ Head(chars) = "-" THEN 0 - Decimal(digits)
                    ELSE Decimal(digits)]

OverflowError == [t |-> "raise", v |-> "OverflowError"]

\* The numeric conversion of one field: None becomes 0; int(value) otherwise,
\* with ValueError and TypeError turned into 0.  int() of an infinite float
\* raises OverflowError, which the handler does not name.
to_int(v) ==
    CASE v.t = "null" -> JInt(0)
      [] v.t = "int" -> v
      [] v.t = "str" -> IF ParseInt(v.v).ok THEN JInt(ParseInt(v.v).n) ELSE JInt(0)
      [] v.t = "float" -> IF v.v = "Infinity" THEN OverflowError ELSE JInt(0)
      [] OTHER -> JInt(0)

\* for k, v in mapping.items(): if k in record: record[v] = record.pop(k)
rename_keys(rec) ==
    LET moved == {k \in DOMAIN mapping : k \in DOMAIN rec}
        keys == (DOMAIN rec \ moved) \cup {mapping[k] : k \in moved}
    IN  [key \in keys |->
            IF \E k \in moved : mapping[k] = key
            THEN rec[CHOOSE k \in moved : mapping[k] = key]
            ELSE rec[key]]

\* Every required key is present, None when it was absent.
ensure_required(rec) ==
    [key \in DOMAIN rec \cup Range(required_keys) |->
        IF key \in DOMAIN rec THEN rec[key] ELSE JNull]

convert_numeric(rec) ==
    [key \in DOMAIN rec |-> IF key \in int_fields THEN to_int(rec[key]) ELSE rec[key]]

\* An empty string in a timestamp field becomes None.
blank_timestamps(rec) ==
    [key \in DOMAIN rec |->
        IF key \in ts_fields /\ rec[key] = JStr(<<>>) THEN JNull ELSE rec[key]]

\* normalize_record(record) for a mapping: the record it returns, or the
\* exception that leaves it.
normalize_record_json(rec) ==
    LET converted == convert_numeric(ensure_required(rename_keys(rec)))
    IN  IF \E key \in int_fields : converted[key] = OverflowError
        THEN [raised |-> "OverflowError"]
        ELSE blank_timestamps(converted)

Pending == [pending |-> TRUE]

NormalizerIdle ==
    /\ raw_record = <<>>
    /\ normalized = Pending

\* One call normalize_record(raw_record).
normalize_call ==
    /\ normalized = Pending
    /\ normalized' = normalize_record_json(raw_record)
    /\ raw_record' = raw_record
    /\ UNCHANGED <<pipeline_vars, scraper_vars, datalake_vars, partition, manifest>>


(***************************************************************************)
(* src/scraper.py, src/datalake.py                                         *)
(***************************************************************************)
\* What the upstream source holds for a channel: Denied (private or not
\* found) or the number of posts it offers.
Denied == 0 - 1

Upstreams == [Channels -> {Denied} \cup 0..MaxPosts]

\* scrape_channel: the messages returned for a channel; an inaccessible
\* channel yields none.
scrape_channel(c, up) == IF up = Denied THEN <<>> ELSE ChannelJson(c, up)

\* The date of the run (TODAY), and the dates the raw store holds partitions of.
TODAY == "2026-01-18"

Dates == {"2026-01-17", TODAY}

\* extra=None, and the extra metadata a caller may pass.
NoExtra == <<>>

Extras == {NoExtra, [note |-> "rerun"], [total_messages |-> 0]}

\* A manifest writer that keeps the channels of the manifest it replaces.
write_manifest_merging(old, date_str, channel_message_counts, extra) ==
    LET merged == IF "channels" \in DOMAIN old
                  THEN channel_message_counts @@ old.channels
                  ELSE channel_message_counts
    IN  extra @@ [date |-> date_str,
                  channels |-> merged,
                  total_messages |-> Sum(merged)]

\* write_manifest: the payload that replaces <date>/_manifest.json (run_utc,
\* the wall-clock time of the write, is not modelled).  `old`, the manifest in
\* place, is truncated unread by open(path, "w").  payload.update(extra) lets
\* the keys of `extra` take the place of the computed ones.
write_manifest(old, date_str, channel_message_counts, extra) ==
    extra @@ [date |-> date_str,
              channels |-> channel_message_counts,
              total_messages |-> Sum(channel_message_counts)]

\* run_scraper over the first `upto` configured channels: a channel's JSON file
\* is rewritten only when the channel returned messages.
run_scraper(part, feed, upto) ==
    [c \in Channels |->
        IF /\ \E i \in 1..upto : channels[i] = c
           /\ scrape_channel(c, feed[c]) # <<>>
        THEN scrape_channel(c, feed[c])
        ELSE part[c]]

all_counts(feed) == [c \in Channels |-> Len(scrape_channel(c, feed[c]))]

(***************************************************************************)
(* src/scraper.py step by step: one run of run_scraper over `channels`     *)
(***************************************************************************)
SCRAPE_LIMIT == 200

\* e.seconds of a FloodWaitError.
FloodSeconds == 5

FloodWaitError == "FloodWaitError"

\* ChannelPrivateError, UsernameNotOccupiedError
AccessErrors == {"ChannelPrivateError", "UsernameNotOccupiedError"}

\* What a request to the upstream may raise; "Exception" stands for any other.
Errors == {FloodWaitError, "Exception"} \cup AccessErrors

NoSignal == [error |-> None, collected |-> <<>>]

\* A scrape_channel that handles the throttle signal only.
caught_flood_only(e) == e = FloodWaitError

\* The except clauses of scrape_channel.
caught(e) == e = FloodWaitError \/ e \in AccessErrors

\* What get_entity may resolve: the public username and the title of the
\* channel, either of which may be missing.
Entities == [username : {None, "username"}, title : {None, "title"}]

NoEntity == [username |-> None, title |-> None, resolved |-> FALSE]

NoPost == [id |-> 0, media |-> FALSE, download |-> "none", skipped |-> FALSE]

PATH == "path"

\* Python's `value or default`: None and the empty string are falsy.
or_else(value, default) == IF value \in {None, ""} THEN default ELSE value

\* A download_media that reports a path whatever client.download_media did.
download_media_unchecked(media, download) == IF media THEN PATH ELSE None

\* download_media: None without media; the path client.download_media
\* returned; None when it raised (the exception is logged).
download_media(media, download) ==
    IF ~media THEN None
    ELSE IF download = "ok" THEN PATH
    ELSE None

\* The TelegramMessage built in the loop body for post i of channel c, on the
\* columns of Msg and those filled from the entity and the download.
TelegramMessage(c, i, ent, media, file_path) ==
    [message_id |-> i,
     channel_username |-> or_else(ent.username, c),
     channel_title |-> or_else(ent.title, ""),
     media_type |-> IF media THEN "photo" ELSE None,
     file_path |-> file_path]

\* An export that is rewritten whatever the rows.
write_combined_csv_unguarded(old, rows) == rows

\* write_combined_csv: no rows, no write; otherwise the file is replaced.
write_combined_csv(old, rows) == IF rows = <<>> THEN old ELSE rows

\* An exception raised inside the outer try of scrape_channel for channel c,
\* outside the per-message try: the throttle wait is slept, an access error
\* is logged, in both cases `messages` is returned as it stands; anything
\* else leaves scrape_channel and run_scraper.
except_clause(c, e) ==
    /\ at_signal' = [at_signal EXCEPT ![c] = [error |-> e, collected |-> messages]]
    /\ signalled' = signalled + (IF e = FloodWaitError THEN FloodSeconds ELSE 0)
    /\ slept' = slept + (IF e = FloodWaitError THEN FloodSeconds ELSE 0)
    /\ IF caught(e)
       THEN pc' = "write" /\ raised' = raised
       ELSE pc' = "done" /\ raised' = e

ScraperIdle ==
    /\ pc = "idle"
    /\ ch = 1
    /\ offered = [c \in Channels |-> 0]
    /\ enumerated = [c \in Channels |-> 0]
    /\ messages = <<>>
    /\ counts = <<>>
    /\ combined_rows = <<>>
    /\ csv = <<>>
    /\ signalled = 0
    /\ slept = 0
    /\ at_signal = [c \in Channels |-> NoSignal]
    /\ raised = None
    /\ entity = NoEntity
    /\ last_post = NoPost

\* client.get_entity(channel).  Outcomes: what the upstream may answer.
get_entity_op(Outcomes) ==
    /\ pc = "get_entity"
    /\ \E e \in Outcomes :
        IF e = "ok"
        THEN /\ pc' = "iter_messages"
             /\ \E ent \in Entities : entity' = ent
             /\ UNCHANGED <<at_signal, signalled, slept, raised>>
        ELSE /\ except_clause(channels[ch], e)
             /\ entity' = entity
    /\ UNCHANGED <<ch, offered, enumerated, messages, counts, combined_rows, csv,
                   last_post>>
    /\ UNCHANGED <<pipeline_vars, datalake_vars, normalizer_vars, partition, manifest>>

get_entity == get_entity_op({"ok"} \cup Errors)

\* The entity lookup when the upstream answers or reports the channel private.
get_entity_again == get_entity_op({"ok", "ChannelPrivateError"})

\* async for msg in client.iter_messages(entity, limit=SCRAPE_LIMIT): the
\* iterator yields the next post (newest first) and the loop body runs, or it
\* is exhausted, or its request raises.  media: the post carries media;
\* download: what client.download_media does (download_media logs whatever
\* it raises and returns None); skipped: the loop body raised and the
\* per-message handler logged "skipped".
iter_messages_op(Medias, Skips, Downloads, Raises) ==
    /\ pc = "iter_messages"
    /\ LET c == channels[ch] IN
        \/ /\ enumerated[c] < Min(offered[c], SCRAPE_LIMIT)
           /\ \E media \in Medias, skipped \in Skips :
              \E download \in (IF media THEN Downloads ELSE {"none"}) :
                /\ enumerated' = [enumerated EXCEPT ![c] = @ + 1]
                /\ messages' =
                      IF skipped THEN messages
                      ELSE Append(messages,
                                  TelegramMessage(c, offered[c] - enumerated[c], entity,
                                                  media, download_media(media, download)))
                /\ last_post' = [id |-> offered[c] - enumerated[c], media |-> media,
                                 download |-> download, skipped |-> skipped]
                /\ signalled' = signalled +
                        (IF download = FloodWaitError THEN FloodSeconds ELSE 0)
                /\ images_dir' = (images_dir \/ media)
                /\ UNCHANGED <<pc, slept, at_signal, raised>>
        \/ /\ enumerated[c] = Min(offered[c], SCRAPE_LIMIT)
           /\ pc' = "write"
           /\ UNCHANGED <<enumerated, messages, signalled, slept, at_signal, raised,
                          images_dir, last_post>>
        \/ /\ \E e \in Raises : except_clause(c, e)
           /\ UNCHANGED <<enumerated, messages, images_dir, last_post>>
    /\ UNCHANGED <<ch, offered, counts, combined_rows, csv, entity>>
    /\ UNCHANGED <<HAS_SCRAPER, HAS_LOADER, HAS_YOLO, job, run, status, attempts,
                   input, output, archive, written, telegram_messages,
                   image_detections, presented, file_errors, db_connects, dbt_rc,
                   detector_calls, transform_status, db_open, dbt_log, cwd,
                   frame_loads, loaded_files, failed_files>>
    /\ UNCHANGED <<datalake_vars, normalizer_vars, partition, manifest>>

iter_messages ==
    iter_messages_op(BOOLEAN, BOOLEAN, {"ok", FloodWaitError, "Exception"}, Errors)

\* The enumeration of posts without media, when the upstream answers or
\* reports the channel private.
iter_messages_again == iter_messages_op({FALSE}, {FALSE}, {"ok"}, {"ChannelPrivateError"})

\* The rest of the for-loop body of run_scraper: the count is recorded, the
\* channel's JSON file and the export rows are written when msgs is not empty,
\* and the loop moves to the next channel.
run_scraper_loop ==
    /\ pc = "write"
    /\ LET c == channels[ch] IN
        /\ counts' = (c :> Len(messages)) @@ counts
        /\ partition' = IF messages # <<>>
                        THEN [partition EXCEPT ![c] = messages] ELSE partition
        /\ combined_rows' = combined_rows \o messages
    /\ messages' = <<>>
    /\ entity' = NoEntity
    /\ last_post' = NoPost
    /\ ch' = ch + 1
    /\ pc' = IF ch < Len(channels) THEN "get_entity" ELSE "finish"
    /\ UNCHANGED <<offered, enumerated, csv, signalled, slept, at_signal, raised>>
    /\ UNCHANGED <<pipeline_vars, datalake_vars, normalizer_vars, manifest>>

\* After the loop: the combined export and the manifest of the date.
run_scraper_end ==
    /\ pc = "finish"
    /\ csv' = write_combined_csv(csv, combined_rows)
    /\ manifest' = write_manifest(manifest, TODAY, counts, NoExtra)
    /\ pc' = "done"
    /\ UNCHANGED <<ch, offered, enumerated, messages, counts, combined_rows,
                   signalled, slept, at_signal, raised, entity, last_post>>
    /\ UNCHANGED <<pipeline_vars, datalake_vars, normalizer_vars, partition>>

\* run_scraper is called again on the same date (the Scrape op of a later
\* run): the loop starts over with empty all_counts and combined_rows, over
\* the store the earlier run left.
run_scraper_again ==
    /\ pc = "done"
    /\ run < MaxRuns
    /\ run' = run + 1
    /\ pc' = "get_entity"
    /\ ch' = 1
    /\ offered' \in [Channels -> 0..MaxPosts]
    /\ enumerated' = [c \in Channels |-> 0]
    /\ messages' = <<>>
    /\ counts' = <<>>
    /\ combined_rows' = <<>>
    /\ signalled' = 0
    /\ slept' = 0
    /\ at_signal' = [c \in Channels |-> NoSignal]
    /\ raised' = None
    /\ entity' = NoEntity
    /\ last_post' = NoPost
    /\ UNCHANGED <<csv, partition, manifest, datalake_vars, normalizer_vars>>
    /\ UNCHANGED <<HAS_SCRAPER, HAS_LOADER, HAS_YOLO, job, status, attempts,
                   input, output, archive, written, images_dir, telegram_messages,
                   image_detections, presented, file_errors, db_connects, dbt_rc,
                   detector_calls, transform_status, db_open, dbt_log, cwd,
                   frame_loads, loaded_files, failed_files>>

(***************************************************************************)
(* src/datalake.py: manifest writes over the dates of the store            *)
(***************************************************************************)
NoWrite == [none |-> TRUE]

\* The per-channel counts a caller may pass: any of the channels, each with
\* no message or with as many as a channel offers.
CountMaps == UNION {[S -> {0, MaxPosts}] : S \in SUBSET Channels}

\* No processed partition of any date, and no export call yet.
NoExport == [dir |-> FALSE, csv |-> <<>>]

NoCall == [none |-> TRUE]

DatalakeIdle ==
    /\ datalake = [d \in Dates |-> NoManifest]
    /\ last_write = [d \in Dates |-> NoWrite]
    /\ processed = [d \in Dates |-> NoExport]
    /\ export_call = NoCall

\* A call write_manifest(base_path, date_str, channel_message_counts, extra).
write_manifest_call ==
    /\ \E date_str \in Dates, channel_message_counts \in CountMaps, extra \in Extras :
        /\ datalake' = [datalake EXCEPT ![date_str] =
                write_manifest(datalake[date_str], date_str, channel_message_counts, extra)]
        /\ last_write' = [last_write EXCEPT ![date_str] =
                [channel_message_counts |-> channel_message_counts,
                 extra |-> extra,
                 replaced |-> DOMAIN Get(datalake[date_str], "channels", <<>>)]]
    /\ UNCHANGED <<processed, export_call>>
    /\ UNCHANGED <<pipeline_vars, scraper_vars, normalizer_vars, partition, manifest>>

\* The row lists a caller may pass: what run_scraper gathers, the messages of
\* each channel in turn.
RowLists ==
    {(IF n = 0 THEN <<>> ELSE ChannelJson(channels[1], n))
        \o (IF m = 0 THEN <<>> ELSE ChannelJson(channels[2], m)) :
            n \in 0..MaxPosts, m \in 0..MaxPosts}

\* os.path.join(out_dir, "telegram_messages.csv")
csv_path(date_str) == <<"processed", "telegram_messages", date_str, "telegram_messages.csv">>

\* What write_combined_csv returns.
write_combined_csv_returns(date_str, rows) ==
    IF rows = <<>> THEN "" ELSE csv_path(date_str)

\* A call write_combined_csv(base_path, date_str, rows): with rows, the
\* directory is ensured and the file written.
write_combined_csv_call ==
    /\ \E date_str \in Dates, rows \in RowLists :
        /\ processed' = [processed EXCEPT ![date_str] =
                [dir |-> (@.dir \/ rows # <<>>),
                 csv |-> write_combined_csv(@.csv, rows)]]
        /\ export_call' = [date_str |-> date_str,
                           rows |-> rows,
                           returned |-> write_combined_csv_returns(date_str, rows),
                           found |-> processed[date_str]]
    /\ UNCHANGED <<datalake, last_write>>
    /\ UNCHANGED <<pipeline_vars, scraper_vars, normalizer_vars, partition, manifest>>

(***************************************************************************)
(* The executor                                                            *)
(***************************************************************************)
Terminal(j, st) ==
    \/ \E op \in Ops : InJob(j, op) /\ st[op] = "failed"
    \/ \A op \in Ops : InJob(j, op) => st[op] = "succeeded"

\* An op may start once the op it takes its argument from has succeeded.
Ready(j, st, op) ==
    /\ InJob(j, op)
    /\ st[op] \in {"pending", "retry_wait"}
    /\ Upstream(j, op) # "none" => st[Upstream(j, op)] = "succeeded"
    /\ ~ \E o \in Ops : InJob(j, o) /\ st[o] = "failed"

\* A retry budget one short.
AfterRaiseOneShort(op, n) == IF n < max_retries(op) THEN "retry_wait" ELSE "failed"

\* The op raised: re-execute it after the delay while the policy allows.
AfterRaise(op, n) == IF n <= max_retries(op) THEN "retry_wait" ELSE "failed"

Raise(op) ==
    /\ status' = [status EXCEPT ![op] = AfterRaise(op, attempts[op])]
    /\ output' = output
    /\ input' = input

Return(op, summary) ==
    /\ status' = [status EXCEPT ![op] = "succeeded"]
    /\ output' = [output EXCEPT ![op] = summary]
    /\ input' = input

Init ==
    /\ HAS_SCRAPER \in BOOLEAN
    /\ HAS_LOADER \in BOOLEAN
    /\ HAS_YOLO \in BOOLEAN
    /\ job \in Jobs
    /\ run = 1
    /\ status = [op \in Ops |-> "pending"]
    /\ attempts = [op \in Ops |-> 0]
    /\ input = [op \in Ops |-> NoSummary]
    /\ output = [op \in Ops |-> NoSummary]
    /\ partition = [c \in Channels |-> <<>>]
    /\ manifest = NoManifest
    /\ archive \in {0, FILE_LIMIT \div 2}
    /\ written = {}
    /\ images_dir \in BOOLEAN
    /\ telegram_messages = EmptyTable
    /\ image_detections = [k \in Categories |-> 0]
    /\ presented = {}
    /\ file_errors = FALSE
    /\ db_connects = [op \in Ops |-> 0]
    /\ dbt_rc = [c \in Commands |-> NotIssued]
    /\ detector_calls = 0
    /\ transform_status = None
    /\ db_open = [op \in Ops |-> 0]
    /\ dbt_log = <<>>
    /\ cwd = launch_dir
    /\ frame_loads = [rows \in FrameCountsSet |-> 0]
    /\ loaded_files = NoFiles
    /\ failed_files = 0
    /\ ScraperIdle
    /\ DatalakeIdle
    /\ NormalizerIdle

\* The execution record of an op (its summary, its retry count, what it
\* observed) lasts until the next op has read the summary.
Consumed(f, j, op, blank) ==
    IF Upstream(j, op) = "none" THEN f ELSE [f EXCEPT ![Upstream(j, op)] = blank]

Start(op) ==
    /\ Ready(job, status, op)
    /\ status' = [status EXCEPT ![op] = "running"]
    /\ attempts' = [Consumed(attempts, job, op, 0) EXCEPT ![op] = @ + 1]
    /\ IF status[op] = "pending"
       THEN /\ input' = [Consumed(input, job, op, NoSummary) EXCEPT ![op] =
                            IF Upstream(job, op) = "none" THEN NoSummary
                            ELSE output[Upstream(job, op)]]
            /\ output' = Consumed(output, job, op, NoSummary)
            /\ written' = IF Upstream(job, op) = "load_raw_to_postgres" THEN {} ELSE written
            /\ presented' = IF Upstream(job, op) = "load_raw_to_postgres" THEN {} ELSE presented
            /\ file_errors' = IF Upstream(job, op) = "load_raw_to_postgres"
                              THEN FALSE ELSE file_errors
            /\ loaded_files' = IF Upstream(job, op) = "load_raw_to_postgres"
                               THEN NoFiles ELSE loaded_files
            /\ failed_files' = IF Upstream(job, op) = "load_raw_to_postgres"
                               THEN 0 ELSE failed_files
            /\ dbt_rc' = IF Upstream(job, op) = "run_dbt_transformations"
                         THEN [c \in Commands |-> NotIssued] ELSE dbt_rc
            /\ dbt_log' = IF Upstream(job, op) = "run_dbt_transformations"
                          THEN <<>> ELSE dbt_log
       ELSE UNCHANGED <<input, output, written, presented, file_errors, dbt_rc,
                        loaded_files, failed_files, dbt_log>>
    /\ UNCHANGED <<unit_vars, HAS_SCRAPER, HAS_LOADER, HAS_YOLO, job, run, partition,
                   manifest, archive, images_dir, telegram_messages,
                   image_detections, db_connects, detector_calls, transform_status,
                   db_open, cwd, frame_loads>>

NewRun ==
    /\ Terminal(job, status)
    /\ run < MaxRuns
    /\ run' = run + 1
    /\ job' = job
    /\ status' = [op \in Ops |-> "pending"]
    /\ attempts' = [op \in Ops |-> 0]
    /\ input' = [op \in Ops |-> NoSummary]
    /\ output' = [op \in Ops |-> NoSummary]
    /\ written' = {}
    /\ presented' = {}
    /\ file_errors' = FALSE
    /\ db_connects' = [op \in Ops |-> 0]
    /\ dbt_rc' = [c \in Commands |-> NotIssued]
    /\ dbt_log' = <<>>
    /\ loaded_files' = NoFiles
    /\ failed_files' = 0
    /\ detector_calls' = 0
    /\ transform_status' = None
    /\ UNCHANGED <<unit_vars, db_open, cwd, frame_loads, HAS_SCRAPER, HAS_LOADER, HAS_YOLO, partition, manifest, archive,
                   images_dir, telegram_messages, image_detections>>

(***************************************************************************)
(* The ops                                                                 *)
(***************************************************************************)
\* The summary scrape_telegram_data returns after the scraper ran (file_list,
\* the first ten paths, is not modelled).
scrape_summary(part, man, arch) ==
    IF Sum(json_files(part, man, arch)) > 0
    THEN [scraped_files |-> Sum(json_files(part, man, arch)), output_dir |-> "raw_dir"]
    ELSE [scraped_files |-> 0, output_dir |-> None]

\* creds: Tg_API_ID and Tg_API_HASH are set.  upto: the channels completed
\* before an exception the scraper does not catch (all of them: none raised).
\* media: a download created the images directory (a no-op when it exists).
scrape_telegram_data ==
    /\ status["scrape_telegram_data"] = "running"
    /\ \E creds \in BOOLEAN :
        IF ~HAS_SCRAPER \/ ~creds
        THEN /\ Raise("scrape_telegram_data")
             /\ UNCHANGED <<partition, manifest, written, images_dir>>
        ELSE \E feed \in Upstreams, upto \in 0..Len(channels),
                media \in (IF images_dir THEN {FALSE} ELSE BOOLEAN) :
             /\ partition' = run_scraper(partition, feed, upto)
             /\ written' = written \cup
                    {c \in Channels :
                        /\ \E i \in 1..upto : channels[i] = c
                        /\ scrape_channel(c, feed[c]) # <<>>}
             /\ images_dir' = (images_dir \/ (media /\ written' # {}))
             /\ IF upto < Len(channels)
                THEN /\ Raise("scrape_telegram_data")
                     /\ manifest' = manifest
                ELSE /\ manifest' = write_manifest(manifest, TODAY, all_counts(feed), NoExtra)
                     /\ Return("scrape_telegram_data",
                               scrape_summary(partition', manifest', archive))
    /\ UNCHANGED <<unit_vars, db_open, dbt_log, cwd, frame_loads, loaded_files, failed_files, 
                   HAS_SCRAPER, HAS_LOADER, HAS_YOLO, job, run, attempts,
                   archive, telegram_messages, image_detections, presented, file_errors,
                   db_connects, dbt_rc, detector_calls, transform_status>>

\* analysis_job's stand-in for the scrape op.
dummy_scrape_op ==
    /\ status["dummy_scrape_op"] = "running"
    /\ Return("dummy_scrape_op", [scraped_files |-> 0, output_dir |-> None])
    /\ UNCHANGED <<unit_vars, db_open, dbt_log, cwd, frame_loads, loaded_files, failed_files, 
                   HAS_SCRAPER, HAS_LOADER, HAS_YOLO, job, run, attempts,
                   partition, manifest, archive, written, images_dir,
                   telegram_messages, image_detections, presented, file_errors, db_connects,
                   dbt_rc, detector_calls, transform_status>>


(***************************************************************************)
(* load_raw_to_postgres                                                    *)
(***************************************************************************)
RECURSIVE Perms(_)
Perms(S) ==
    IF S = {} THEN {<<>>}
    ELSE UNION {{<<x>> \o p : p \in Perms(S \ {x})} : x \in S}

\* The ways of leaving `size` files of the listing out.
RECURSIVE SubBagsOver(_, _, _)
SubBagsOver(bag, S, size) ==
    IF S = {} THEN (IF size = 0 THEN {<<>>} ELSE {})
    ELSE LET d == CHOOSE x \in S : TRUE IN
         UNION {{(d :> k) @@ e : e \in SubBagsOver(bag, S \ {d}, size - k)} :
                    k \in 0..Min(bag[d], size)}

SubBags(bag, size) == SubBagsOver(bag, DOMAIN bag, size)

\* json_files[:FILE_LIMIT]: how many files the slice leaves out.
Excess(files) == Sum(files) - Min(Sum(files), FILE_LIMIT)

\* The files that load, in listing order: files of one channel hold the same
\* rows for the same post, so the order of the channels decides every conflict.
RECURSIVE listing(_, _)
listing(loaded, order) ==
    IF order = <<>> THEN <<>>
    ELSE IF \E d \in loaded : d.kind = "list" /\ d.items[1].channel_username = Head(order)
    THEN LET d == CHOOSE e \in loaded :
                    e.kind = "list" /\ e.items[1].channel_username = Head(order)
         IN <<d>> \o listing(loaded \ {d}, order)
    ELSE IF Len(order) > 1 THEN listing(loaded, Tail(order))
    ELSE IF loaded # {} THEN <<CHOOSE e \in loaded : TRUE>> \o listing(loaded \ {CHOOSE e \in loaded : TRUE}, order)
    ELSE <<>>

\* The loop body over the files that load, in listing order.
RECURSIVE load_files(_, _)
load_files(table, order) ==
    IF order = <<>> THEN table
    ELSE load_files(load_to_raw(table, Head(order)).table, Tail(order))

\* A file that fails wipes the running total.
total_records_reset(table, taken, loaded) ==
    IF \E d \in FileDatas : taken[d] > 0 /\ d \notin loaded
    THEN 0
    ELSE Sum([d \in loaded |-> taken[d] * load_to_raw(table, d).records])

\* total_records: the sum of what load_to_raw returned for each loaded file.
total_records(table, taken, loaded) ==
    Sum([d \in loaded |-> taken[d] * load_to_raw(table, d).records])

\* engine.connect(): the op holds one more open connection.
connect(open, op) == [open EXCEPT ![op] = @ + 1]

\* A release that is skipped when the block raised.
close_on_success(open, op, block_raised) ==
    IF block_raised THEN open ELSE [open EXCEPT ![op] = @ - 1]

\* Leaving the with block of get_connection() (finally: conn.close()) or of
\* engine.connect(): the connection is closed whether or not the block raised.
close(open, op, block_raised) == [open EXCEPT ![op] = @ - 1]

\* Guards without the zero-files return.
load_precheck_no_zero(has_loader, scrape_result) ==
    IF ~has_loader THEN "skipped" ELSE "go"

\* The guards that return before a connection is asked for.
load_precheck(has_loader, scrape_result) ==
    IF ~has_loader THEN "skipped"
    ELSE IF scrape_result.scraped_files = 0 THEN "no_files"
    ELSE "go"

\* connected: engine.connect() succeeded.  cut: the files beyond the slice.
\* bad: the file contents whose read or load raises (caught per file).
load_raw_to_postgres ==
    /\ status["load_raw_to_postgres"] = "running"
    /\ IF load_precheck(HAS_LOADER, input["load_raw_to_postgres"]) # "go"
       THEN /\ Return("load_raw_to_postgres",
                      [loaded_records |-> 0,
                       status |-> load_precheck(HAS_LOADER, input["load_raw_to_postgres"])])
            /\ UNCHANGED <<telegram_messages, presented, file_errors, db_connects,
                           db_open, loaded_files, failed_files>>
       ELSE \E connected \in BOOLEAN :
            IF ~connected
            THEN /\ Raise("load_raw_to_postgres")
                 /\ UNCHANGED <<telegram_messages, presented, file_errors, db_connects,
                                db_open, loaded_files, failed_files>>
            ELSE \E files \in {json_files(partition, manifest, archive)} :
                 \E cut \in SubBags(files, Excess(files)) :
                 \E taken \in {[d \in FileDatas |-> files[d] - cut[d]]} :
                 \E listed \in {{d \in FileDatas : taken[d] > 0}} :
                        \E bad \in SUBSET listed :
                        \E order \in Perms(Channels) :
                            /\ telegram_messages' =
                                    load_files(telegram_messages, listing(listed \ bad, order))
                            /\ presented' = presented \cup
                                    UNION {Range(d.items) : d \in listed \ bad}
                            /\ file_errors' = (file_errors \/ bad # {})
                            /\ loaded_files' =
                                    [d \in FileDatas |-> IF d \in bad THEN 0 ELSE taken[d]]
                            /\ failed_files' = Sum([d \in bad |-> taken[d]])
                            /\ db_connects' =
                                    [db_connects EXCEPT !["load_raw_to_postgres"] = @ + 1]
                            /\ db_open' =
                                    close(connect(db_open, "load_raw_to_postgres"),
                                          "load_raw_to_postgres", FALSE)
                            /\ Return("load_raw_to_postgres",
                                      [loaded_records |->
                                            total_records(telegram_messages, taken, listed \ bad),
                                       status |-> "success"])
    /\ UNCHANGED <<unit_vars, dbt_log, cwd, frame_loads,
                   HAS_SCRAPER, HAS_LOADER, HAS_YOLO, job, run, attempts,
                   partition, manifest, archive, written, images_dir,
                   image_detections, dbt_rc, detector_calls, transform_status>>

(***************************************************************************)
(* run_dbt_transformations                                                 *)
(***************************************************************************)
\* The for loop over the sub-commands: the command whose non-zero exit raises
\* ("none" when the loop runs to its end).  A failing test is only logged.
RECURSIVE run_commands(_, _)
run_commands(cmds, rc) ==
    IF cmds = <<>> THEN "none"
    ELSE IF rc[Head(cmds)] # 0 /\ Head(cmds) # "test" THEN Head(cmds)
    ELSE run_commands(Tail(cmds), rc)

\* The exit codes of the sub-commands the loop issued.
RECURSIVE issued(_, _)
issued(cmds, rc) ==
    IF cmds = <<>> THEN [c \in Commands |-> NotIssued]
    ELSE IF rc[Head(cmds)] # 0 /\ Head(cmds) # "test"
         THEN [c \in Commands |-> IF c = Head(cmds) THEN rc[c] ELSE NotIssued]
    ELSE [c \in Commands |->
            IF c = Head(cmds) THEN rc[c] ELSE issued(Tail(cmds), rc)[c]]

\* A loop that stops at the first non-zero exit, the test's included.
subprocess_runs_strict(cmds, rc) ==
    IF rc[cmds[1]] # 0 THEN <<[cmd |-> cmds[1], returncode |-> rc[cmds[1]]]>>
    ELSE IF rc[cmds[2]] # 0
    THEN <<[cmd |-> cmds[1], returncode |-> rc[cmds[1]]],
           [cmd |-> cmds[2], returncode |-> rc[cmds[2]]]>>
    ELSE [i \in 1..Len(cmds) |-> [cmd |-> cmds[i], returncode |-> rc[cmds[i]]]]

\* The subprocess.run calls of the for loop, in the order they are made, each
\* with its exit code: the loop ends at the first non-zero exit of a command
\* other than test.
RECURSIVE subprocess_runs(_, _)
subprocess_runs(cmds, rc) ==
    IF cmds = <<>> THEN <<>>
    ELSE IF rc[Head(cmds)] # 0 /\ Head(cmds) # "test"
    THEN <<[cmd |-> Head(cmds), returncode |-> rc[Head(cmds)]]>>
    ELSE <<[cmd |-> Head(cmds), returncode |-> rc[Head(cmds)]]>>
            \o subprocess_runs(Tail(cmds), rc)

\* A restore that is skipped when the block raised.
chdir_back_on_success(original_dir, project_dir, block_raised) ==
    IF block_raised THEN project_dir ELSE original_dir

\* os.chdir(dbt_project_dir) inside try, os.chdir(original_dir) in finally:
\* the working directory after the block, whether or not it raised.
chdir_back(original_dir, project_dir, block_raised) == original_dir

\* The value of tests_passed on the path where no sub-command raised.
tests_passed_on_success(rc) == TRUE

\* A failed summary that does not carry the loaded count.
dbt_summary_uncarried(load_result, launched, rc) ==
    IF ~launched \/ run_commands(commands, rc) # "none"
    THEN [dbt_status |-> "failed", loaded_records |-> 0,
          error |-> "failed", tests_passed |-> FALSE]
    ELSE [dbt_status |-> "success",
          loaded_records |-> Get(load_result, "loaded_records", 0),
          tests_passed |-> TRUE]

\* launched: os.chdir and the sub-process launches did not raise.
dbt_summary(load_result, launched, rc) ==
    IF ~launched
    THEN [dbt_status |-> "failed",
          loaded_records |-> Get(load_result, "loaded_records", 0),
          error |-> "launch",
          tests_passed |-> FALSE]
    ELSE IF run_commands(commands, rc) # "none"
    THEN [dbt_status |-> "failed",
          loaded_records |-> Get(load_result, "loaded_records", 0),
          error |-> run_commands(commands, rc),
          tests_passed |-> FALSE]
    ELSE [dbt_status |-> "success",
          loaded_records |-> Get(load_result, "loaded_records", 0),
          tests_passed |-> tests_passed_on_success(rc)]

\* A handler that lets a failed sub-command propagate.
dbt_catches_nothing(failure) == failure = "none"

\* except Exception: whatever the try block raises is turned into the failed
\* summary.
dbt_catches(failure) == TRUE

\* Launches and ExitCodes: what the environment may answer.
dbt_op(Launches, ExitCodes) ==
    /\ status["run_dbt_transformations"] = "running"
    /\ \E launched \in Launches :
       \E rc \in IF launched THEN [Commands -> ExitCodes] ELSE {[c \in Commands |-> 0]} :
        /\ dbt_rc' = IF launched THEN issued(commands, rc)
                     ELSE [c \in Commands |-> NotIssued]
        /\ dbt_log' = IF launched THEN subprocess_runs(commands, rc) ELSE <<>>
        /\ cwd' = chdir_back(cwd, dbt_project_dir,
                             ~launched \/ run_commands(commands, rc) # "none")
        /\ IF dbt_catches(IF launched THEN run_commands(commands, rc) ELSE "launch")
           THEN Return("run_dbt_transformations",
                       dbt_summary(input["run_dbt_transformations"], launched, rc))
           ELSE Raise("run_dbt_transformations")
    /\ transform_status' = Get(output'["run_dbt_transformations"], "dbt_status",
                                transform_status)
    /\ UNCHANGED <<unit_vars, db_open, frame_loads, loaded_files, failed_files,
                   HAS_SCRAPER, HAS_LOADER, HAS_YOLO, job, run, attempts,
                   partition, manifest, archive, written, images_dir,
                   telegram_messages, image_detections, presented, file_errors, db_connects,
                   detector_calls>>

run_dbt_transformations == dbt_op(BOOLEAN, {0, 1})

\* The transform when dbt is installed and every sub-command exits 0.
run_dbt_transformations_ok == dbt_op({TRUE}, {0})

(***************************************************************************)
(* run_yolo_enrichment                                                     *)
(***************************************************************************)
\* The result frames the detector may return: a category column (or none) and
\* one category per row.
Frames ==
    [column : {"image_category", "category", "other"},
     rows : FrameRows]

value_counts(rows) ==
    [k \in Range(rows) |-> Cardinality({i \in 1..Len(rows) : rows[i] = k})]

category_counts(df) ==
    IF Len(df.rows) > 0 /\ df.column \in {"image_category", "category"}
    THEN value_counts(df.rows)
    ELSE <<>>

\* A load that keeps one copy of each detection however often it is replayed.
load_yolo_results_once(table, df) ==
    [k \in Categories |->
        IF table[k] > Cardinality({i \in 1..Len(df.rows) : df.rows[i] = k})
        THEN table[k]
        ELSE Cardinality({i \in 1..Len(df.rows) : df.rows[i] = k})]

\* load_yolo_results with SQL_INSERT: every row of the frame is inserted.
load_yolo_results(table, df) ==
    [k \in Categories |->
        table[k] + Cardinality({i \in 1..Len(df.rows) : df.rows[i] = k})]

yolo_skipped(reason) ==
    [detected_images |-> 0, yolo_status |-> "skipped",
     category_counts |-> <<>>, error |-> reason]

yolo_failed(reason) ==
    [detected_images |-> 0, yolo_status |-> "failed",
     category_counts |-> <<>>, error |-> reason]

\* sample_results (the first three rows) is not modelled.
yolo_success(df) ==
    [detected_images |-> Len(df.rows), yolo_status |-> "success",
     category_counts |-> category_counts(df)]

\* Guards without the images-directory return.
yolo_precheck_no_dir(has_yolo, dir_exists) ==
    IF ~has_yolo THEN "Module not found" ELSE "go"

\* The guards that return before the detector is constructed.
yolo_precheck(has_yolo, dir_exists) ==
    IF ~has_yolo THEN "Module not found"
    ELSE IF ~dir_exists THEN "Images directory not found"
    ELSE "go"

\* fault: the first call inside the try block that raises.
YoloFaults == {"none", "detector", "connect", "load", "dbt_launch"}

run_yolo_enrichment ==
    /\ status["run_yolo_enrichment"] = "running"
    /\ IF yolo_precheck(HAS_YOLO, images_dir) # "go"
       THEN /\ Return("run_yolo_enrichment",
                      yolo_skipped(yolo_precheck(HAS_YOLO, images_dir)))
            /\ UNCHANGED <<image_detections, db_connects, detector_calls,
                           db_open, cwd, frame_loads>>
       ELSE \E df \in Frames, fault \in YoloFaults :
            /\ detector_calls' = detector_calls + 1
            /\ IF fault = "detector" \/ (HAS_LOADER /\ fault \in {"connect", "load"})
               THEN /\ Return("run_yolo_enrichment", yolo_failed(fault))
                    /\ image_detections' = image_detections
                    /\ db_connects' =
                          IF fault = "load"
                          THEN [db_connects EXCEPT !["run_yolo_enrichment"] = @ + 1]
                          ELSE db_connects
                    /\ db_open' =
                          IF fault = "load"
                          THEN close(connect(db_open, "run_yolo_enrichment"),
                                     "run_yolo_enrichment", TRUE)
                          ELSE db_open
                    /\ UNCHANGED <<cwd, frame_loads>>
               ELSE IF HAS_LOADER
               THEN /\ image_detections' = load_yolo_results(image_detections, df)
                    /\ frame_loads' = [frame_loads EXCEPT ![FrameCounts(df.rows)] = @ + 1]
                    /\ db_connects' =
                          [db_connects EXCEPT !["run_yolo_enrichment"] = @ + 1]
                    /\ db_open' = close(connect(db_open, "run_yolo_enrichment"),
                                        "run_yolo_enrichment", FALSE)
                    /\ cwd' = chdir_back(cwd, dbt_project_dir, fault = "dbt_launch")
                    /\ Return("run_yolo_enrichment",
                              IF fault = "dbt_launch" THEN yolo_failed(fault)
                              ELSE yolo_success(df))
               ELSE /\ UNCHANGED <<image_detections, db_connects, db_open, cwd,
                                   frame_loads>>
                    /\ Return("run_yolo_enrichment", yolo_success(df))
    /\ UNCHANGED <<unit_vars, dbt_log, loaded_files, failed_files, HAS_SCRAPER, HAS_LOADER, HAS_YOLO, job, run, attempts,
                   partition, manifest, archive, written, images_dir,
                   telegram_messages, presented, file_errors, dbt_rc, transform_status>>

(***************************************************************************)
(* start_fastapi                                                           *)
(***************************************************************************)
\* A report that reads the count under the name it reports it by.
fastapi_summary_misread(yolo_result) ==
    [api_status |-> "ready",
     total_processed |-> Get(yolo_result, "total_processed", 0),
     category_counts |-> Get(yolo_result, "category_counts", <<>>),
     yolo_status |-> Get(yolo_result, "yolo_status", "unknown")]

\* The endpoints list, a constant, is not modelled.
fastapi_summary(yolo_result) ==
    [api_status |-> "ready",
     total_processed |-> Get(yolo_result, "detected_images", 0),
     category_counts |-> Get(yolo_result, "category_counts", <<>>),
     yolo_status |-> Get(yolo_result, "yolo_status", "unknown")]

start_fastapi ==
    /\ status["start_fastapi"] = "running"
    /\ Return("start_fastapi", fastapi_summary(input["start_fastapi"]))
    /\ UNCHANGED <<unit_vars, db_open, dbt_log, cwd, frame_loads, loaded_files, failed_files, 
                   HAS_SCRAPER, HAS_LOADER, HAS_YOLO, job, run, attempts,
                   partition, manifest, archive, written, images_dir,
                   telegram_messages, image_detections, presented, file_errors, db_connects,
                   dbt_rc, detector_calls, transform_status>>

(***************************************************************************)
(* Specifications                                                          *)
(***************************************************************************)
StartOp == \E op \in Ops : Start(op)

\* One run of any of the three jobs.
Next ==
    \/ StartOp
    \/ scrape_telegram_data
    \/ dummy_scrape_op
    \/ load_raw_to_postgres
    \/ run_dbt_transformations
    \/ run_yolo_enrichment
    \/ start_fastapi

Spec == Init /\ [][Next]_vars

\* Repeated runs of daily_scrape_job over the same store and warehouse, with
\* every module importable and a transform that succeeds.
StoreInit ==
    /\ Init
    /\ HAS_SCRAPER /\ HAS_LOADER /\ HAS_YOLO
    /\ job = "daily_scrape_job"
    /\ images_dir

StoreNext ==
    \/ StartOp
    \/ scrape_telegram_data
    \/ load_raw_to_postgres
    \/ run_dbt_transformations_ok
    \/ NewRun

StoreSpec == StoreInit /\ [][StoreNext]_vars

\* Repeated runs of analysis_job over the same warehouse, with every module
\* importable, the images directory present and a message table that earlier
\* loads have filled.
EnrichInit ==
    /\ HAS_SCRAPER = TRUE /\ HAS_LOADER = TRUE /\ HAS_YOLO = TRUE
    /\ job = "analysis_job"
    /\ run = 1
    /\ status = [op \in Ops |-> "pending"]
    /\ attempts = [op \in Ops |-> 0]
    /\ input = [op \in Ops |-> NoSummary]
    /\ output = [op \in Ops |-> NoSummary]
    /\ partition = [c \in Channels |-> <<>>]
    /\ manifest = NoManifest
    /\ archive = 0
    /\ written = {}
    /\ images_dir = TRUE
    /\ telegram_messages \in
            {EmptyTable,
             load_to_raw(EmptyTable, ListData(ChannelJson(channels[1], MaxPosts))).table}
    /\ image_detections = [k \in Categories |-> 0]
    /\ presented = {}
    /\ file_errors = FALSE
    /\ db_connects = [op \in Ops |-> 0]
    /\ dbt_rc = [c \in Commands |-> NotIssued]
    /\ detector_calls = 0
    /\ transform_status = None
    /\ db_open = [op \in Ops |-> 0]
    /\ dbt_log = <<>>
    /\ cwd = launch_dir
    /\ frame_loads = [rows \in FrameCountsSet |-> 0]
    /\ loaded_files = NoFiles
    /\ failed_files = 0
    /\ ScraperIdle
    /\ DatalakeIdle
    /\ NormalizerIdle

EnrichNext ==
    \/ StartOp
    \/ dummy_scrape_op
    \/ load_raw_to_postgres
    \/ run_dbt_transformations_ok
    \/ run_yolo_enrichment
    \/ NewRun

EnrichSpec == EnrichInit /\ [][EnrichNext]_vars

\* One run of the scraper over an empty partition of today.
ScraperInit ==
    /\ HAS_SCRAPER = TRUE /\ HAS_LOADER = TRUE /\ HAS_YOLO = TRUE
    /\ job = "daily_scrape_job"
    /\ run = 1
    /\ status = [op \in Ops |-> "pending"]
    /\ attempts = [op \in Ops |-> 0]
    /\ input = [op \in Ops |-> NoSummary]
    /\ output = [op \in Ops |-> NoSummary]
    /\ partition = [c \in Channels |-> <<>>]
    /\ manifest = NoManifest
    /\ archive = 0
    /\ written = {}
    /\ images_dir = FALSE
    /\ telegram_messages = EmptyTable
    /\ image_detections = [k \in Categories |-> 0]
    /\ presented = {}
    /\ file_errors = FALSE
    /\ db_connects = [op \in Ops |-> 0]
    /\ dbt_rc = [c \in Commands |-> NotIssued]
    /\ detector_calls = 0
    /\ transform_status = None
    /\ db_open = [op \in Ops |-> 0]
    /\ dbt_log = <<>>
    /\ cwd = launch_dir
    /\ frame_loads = [rows \in FrameCountsSet |-> 0]
    /\ loaded_files = NoFiles
    /\ failed_files = 0
    /\ pc = "get_entity"
    /\ ch = 1
    /\ offered \in [Channels -> 0..MaxPosts]
    /\ enumerated = [c \in Channels |-> 0]
    /\ messages = <<>>
    /\ counts = <<>>
    /\ combined_rows = <<>>
    /\ csv = <<>>
    /\ signalled = 0
    /\ slept = 0
    /\ at_signal = [c \in Channels |-> NoSignal]
    /\ raised = None
    /\ entity = NoEntity
    /\ last_post = NoPost
    /\ DatalakeIdle
    /\ NormalizerIdle

ScraperNext ==
    \/ get_entity
    \/ iter_messages
    \/ run_scraper_loop
    \/ run_scraper_end

ScraperSpec == ScraperInit /\ [][ScraperNext]_vars

\* Runs of the scraper one after the other on the same date, over posts
\* without media.
RerunNext ==
    \/ get_entity_again
    \/ iter_messages_again
    \/ run_scraper_loop
    \/ run_scraper_end
    \/ run_scraper_again

RerunSpec == ScraperInit /\ [][RerunNext]_vars

\* Manifest writes, for any date, counts and extra metadata.
DatalakeInit ==
    /\ Init
    /\ HAS_SCRAPER /\ HAS_LOADER /\ HAS_YOLO
    /\ job = "daily_scrape_job"
    /\ archive = 0
    /\ images_dir

DatalakeNext == write_manifest_call

DatalakeSpec == DatalakeInit /\ [][DatalakeNext]_vars

\* Calls of write_combined_csv over the processed partitions.
ExportNext == write_combined_csv_call

ExportSpec == DatalakeInit /\ [][ExportNext]_vars

\* normalize_record applied once to any mapping of the bounded input set.
NormalizerInit ==
    /\ HAS_SCRAPER = TRUE /\ HAS_LOADER = TRUE /\ HAS_YOLO = TRUE
    /\ job = "daily_scrape_job"
    /\ run = 1
    /\ status = [op \in Ops |-> "pending"]
    /\ attempts = [op \in Ops |-> 0]
    /\ input = [op \in Ops |-> NoSummary]
    /\ output = [op \in Ops |-> NoSummary]
    /\ partition = [c \in Channels |-> <<>>]
    /\ manifest = NoManifest
    /\ archive = 0
    /\ written = {}
    /\ images_dir = FALSE
    /\ telegram_messages = EmptyTable
    /\ image_detections = [k \in Categories |-> 0]
    /\ presented = {}
    /\ file_errors = FALSE
    /\ db_connects = [op \in Ops |-> 0]
    /\ dbt_rc = [c \in Commands |-> NotIssued]
    /\ detector_calls = 0
    /\ transform_status = None
    /\ db_open = [op \in Ops |-> 0]
    /\ dbt_log = <<>>
    /\ cwd = launch_dir
    /\ frame_loads = [rows \in FrameCountsSet |-> 0]
    /\ loaded_files = NoFiles
    /\ failed_files = 0
    /\ ScraperIdle
    /\ DatalakeIdle
    /\ raw_record \in Records
    /\ normalized = Pending

NormalizerNext == normalize_call

NormalizerSpec == NormalizerInit /\ [][NormalizerNext]_vars

\* The executor keeps scheduling: a started op runs to its end, a ready op is
\* started, a retry is taken once its delay has elapsed.
FairSpec ==
    /\ Spec
    /\ WF_vars(StartOp)
    /\ WF_vars(scrape_telegram_data)
    /\ WF_vars(dummy_scrape_op)
    /\ WF_vars(load_raw_to_postgres)
    /\ WF_vars(run_dbt_transformations)
    /\ WF_vars(run_yolo_enrichment)
    /\ WF_vars(start_fastapi)


(***************************************************************************)
(* Properties                                                              *)
(***************************************************************************)
Scrape == "scrape_telegram_data"
Load == "load_raw_to_postgres"
Transform == "run_dbt_transformations"
Enrich == "run_yolo_enrichment"
Publish == "start_fastapi"

Stages == <<Scrape, Load, Transform, Enrich, Publish>>

FullPipeline == job = "medical_telegram_pipeline"

Active(op) == status[op] \in {"running", "retry_wait"}

Raised(op) == status[op] \in {"retry_wait", "failed"}

\* The op has returned and its summary has not been read yet.
Emitted(op) == status[op] = "succeeded" /\ output[op] # NoSummary

C1_State ==
    FullPipeline =>
        /\ Cardinality({op \in Ops : Active(op)}) <= 1
        /\ \A i \in 2..Len(Stages) :
                status[Stages[i]] # "pending" => status[Stages[i - 1]] = "succeeded"
        /\ status["dummy_scrape_op"] = "pending"

C1_Step ==
    FullPipeline =>
        \A i \in 2..Len(Stages) :
            /\ (status[Stages[i]] = "pending" /\ status'[Stages[i]] = "running")
                    => /\ Emitted(Stages[i - 1])
                       /\ input'[Stages[i]] = output[Stages[i - 1]]
            /\ (status[Stages[i]] = "retry_wait" /\ status'[Stages[i]] = "running")
                    => input'[Stages[i]] = input[Stages[i]]

\* C1: in the full pipeline the stages run strictly in the order Scrape, Load,
\* Transform, Enrich, Publish: a stage has started only if its predecessor has
\* succeeded, at most one stage is executing or waiting to be retried at any
\* time, and the summary a stage is started with is the one its immediate
\* predecessor emitted (the same one on every retry).
C1_StrictStageOrder == [](C1_State) /\ [][C1_Step]_vars

C1_Witness == FullPipeline /\ status[Publish] = "succeeded"

\* C2: Scrape is executed at most 4 times in a run (3 retries); it fails the
\* run only after the fourth execution raised, and then no other op of the
\* run has been or is ever started.
C2_ScrapeRetriesThenFatal ==
    /\ attempts[Scrape] <= 4
    /\ status[Scrape] = "failed" =>
            /\ attempts[Scrape] = 4
            /\ \A op \in Ops \ {Scrape} : status[op] = "pending" /\ attempts[op] = 0

C2_Witness == status[Scrape] = "failed" /\ HAS_SCRAPER /\ written # {}

\* C3: once Load has terminated with a summary in the full pipeline, Publish
\* eventually succeeds, and it is executed at most once; Transform and Enrich
\* never raise (they are never retried and never fail the run).
C3_DegradedRunsReachPublish ==
    /\ [](~Raised(Transform) /\ ~Raised(Enrich) /\ ~Raised(Publish)
            /\ attempts[Publish] <= 1)
    /\ ((FullPipeline /\ status[Load] = "succeeded") ~> (status[Publish] = "succeeded"))

C3_Witness ==
    /\ FullPipeline
    /\ Emitted(Publish)
    /\ output[Publish].yolo_status = "failed"

RunOrDocsFailed == dbt_rc["run"] = 1 \/ dbt_rc["docs"] = 1

C4_State ==
    (Emitted(Transform) /\ RunOrDocsFailed) =>
        /\ output[Transform].dbt_status = "failed"
        /\ output[Transform].tests_passed = FALSE
        /\ "error" \in DOMAIN output[Transform]
        /\ output[Transform].loaded_records = input[Transform].loaded_records

C4_Step ==
    (status[Enrich] = "pending" /\ status'[Enrich] = "running")
        => input'[Enrich] = output[Transform]

\* C4: when the run or the generate-docs sub-command exits non-zero, Transform
\* does not raise; it returns a summary with dbt_status "failed",
\* tests_passed false, an error string and the loaded_records of the Load
\* summary, and Enrich (in the jobs that have it) is then started with exactly
\* that summary.
C4_FailedTransformSummary ==
    /\ [](C4_State /\ ~Raised(Transform))
    /\ [][C4_Step]_vars
    /\ ((InJob(job, Enrich) /\ Emitted(Transform) /\ RunOrDocsFailed)
            ~> (status[Enrich] = "running"
                    /\ Get(input[Enrich], "dbt_status", "none") = "failed"))

C4_Witness ==
    /\ status[Enrich] = "running"
    /\ Get(input[Enrich], "dbt_status", "none") = "failed"
    /\ Get(input[Enrich], "loaded_records", 0) > 0

\* C5: when only the test sub-command exits non-zero, the Transform summary is
\* not failed and records tests_passed = false; tests_passed is true only when
\* the test sub-command was issued and exited 0.
C5_TestsPassedReflectsTest ==
    Emitted(Transform) =>
        /\ (dbt_rc = [run |-> 0, test |-> 1, docs |-> 0]
                => /\ output[Transform].dbt_status = "success"
                   /\ output[Transform].tests_passed = FALSE)
        /\ (output[Transform].tests_passed => dbt_rc["test"] = 0)

ZeroFiles == Get(input[Load], "scraped_files", 1) = 0

\* C6 as stated: with scraped_files = 0, Load returns loaded_records 0 and
\* status "no_files" without acquiring a connection.
C6_NoFilesStatus ==
    (Emitted(Load) /\ ZeroFiles) =>
        /\ output[Load] = [loaded_records |-> 0, status |-> "no_files"]
        /\ db_connects[Load] = 0

C6_State ==
    ZeroFiles =>
        /\ ~Raised(Load)
        /\ db_connects[Load] = 0
        /\ Emitted(Load) =>
                output[Load] = [loaded_records |-> 0,
                                status |-> IF HAS_LOADER THEN "no_files" ELSE "skipped"]

C6_Step == ZeroFiles => telegram_messages' = telegram_messages

\* C6 (amended): with scraped_files = 0, Load does not raise, acquires no
\* connection, inserts no row and returns loaded_records 0 with status
\* "no_files" when the loader module is available and "skipped" when it is
\* not; the run continues to Transform.
C6_NoFilesIsNoOp ==
    /\ [](C6_State)
    /\ [][C6_Step]_vars
    /\ ((Emitted(Load) /\ ZeroFiles) ~> (status[Transform] # "pending"))

C6_Witness == Emitted(Load) /\ ZeroFiles /\ output[Load].status = "no_files"

DetectorUnavailable == ~HAS_YOLO \/ ~images_dir

C7_State ==
    DetectorUnavailable =>
        /\ ~Raised(Enrich)
        /\ detector_calls = 0
        /\ db_connects[Enrich] = 0
        /\ Emitted(Enrich) =>
                /\ output[Enrich].yolo_status = "skipped"
                /\ output[Enrich].detected_images = 0

C7_Step ==
    (DetectorUnavailable /\ status[Enrich] = "running")
        => image_detections' = image_detections

\* C7: when the detector module is unavailable or the images directory does
\* not exist, Enrich returns status "skipped" with detected_images 0, without
\* invoking the detector, acquiring a connection, inserting a detection row
\* or raising, and the full pipeline still reaches Publish.
C7_EnrichSkipped ==
    /\ [](C7_State)
    /\ [][C7_Step]_vars
    /\ ((FullPipeline /\ DetectorUnavailable /\ Emitted(Enrich))
            ~> (status[Publish] = "succeeded"))

C7_Witness ==
    /\ FullPipeline
    /\ Emitted(Publish)
    /\ output[Publish].yolo_status = "skipped"
    /\ HAS_YOLO
    /\ ~images_dir


UniqueMessageIds ==
    \A r \in AllRows :
        /\ telegram_messages[r] <= 1
        /\ \A q \in AllRows :
                (telegram_messages[r] > 0 /\ telegram_messages[q] > 0
                    /\ r.message_id = q.message_id) => r = q

ReloadChangesNothing ==
    \A d \in FileDatas :
        LET once == load_to_raw(telegram_messages, d).table
        IN  /\ load_to_raw(once, d).table = once
            /\ RowCount(load_to_raw(once, d).table) = RowCount(once)

\* C8: the message table never holds two rows with the same message_id,
\* whatever was loaded by earlier files, earlier Load executions or earlier
\* runs over the same partitions, and loading any batch a second time leaves
\* the table (its rows and their number) as the first load left it.
C8_LoadIsIdempotent == UniqueMessageIds /\ ReloadChangesNothing

C8_Witness ==
    /\ Emitted(Load)
    /\ output[Load].status = "success"
    /\ presented = {Msg(channels[1], 1)}
    /\ output[Load].loaded_records >= 2
    /\ RowCount(telegram_messages) = 1

\* C9: the loaded_records of a successful Load equals the number of rows the
\* stage added to the message table (here the table is empty when the run
\* starts, so the growth is the row count).
C9_LoadedRecordsIsGrowth ==
    (Emitted(Load) /\ output[Load].status = "success" /\ run = 1)
        => output[Load].loaded_records = RowCount(telegram_messages)

\* C10: every record of a channel file written by the Scrape op of the run is
\* handed to the loader by the Load op of the run (stated here for the Load
\* executions in which no file failed to load).
C10_ScrapedRecordsPresented ==
    (Emitted(Load) /\ output[Load].status = "success" /\ ~file_errors)
        => \A c \in written : Range(partition[c]) \subseteq presented


(***************************************************************************)
(* The scraper                                                             *)
(***************************************************************************)
Completed == pc = "done" /\ raised = None

Throttled(c) == at_signal[c].error = FloodWaitError

AccessDenied(c) == at_signal[c].error \in AccessErrors

\* The rows of the combined export hold every element of `msgs`.
Exported(msgs) == Range(msgs) \subseteq Range(csv)

\* The messages a caught exception left for channel c are what the run wrote
\* for the channel: its JSON file, its export rows, its manifest count.
KeptWhatWasCollected(c) ==
    /\ partition[c] = at_signal[c].collected
    /\ Exported(at_signal[c].collected)
    /\ manifest.channels[c] = Len(at_signal[c].collected)

\* C11: a throttle signal raised while a channel is scraped never leaves the
\* scraper, is answered by a sleep of the signalled duration, and the messages
\* collected before it are in the channel's JSON file, the combined export and
\* the manifest count.
C11_ThrottleIsSleptAndKeepsMessages ==
    /\ raised # FloodWaitError
    /\ slept = signalled
    /\ Completed => \A c \in Channels : Throttled(c) => KeptWhatWasCollected(c)

\* C12: after a throttle signal the scraper resumes the same channel: when the
\* run completes, every post the channel offers (up to the per-run limit) has
\* been enumerated.
C12_ThrottledChannelIsResumed ==
    Completed =>
        \A c \in Channels :
            Throttled(c) => enumerated[c] = Min(offered[c], SCRAPE_LIMIT)

C14_FileCountIsChannelFiles ==
    Emitted(Scrape) => output[Scrape].scraped_files = Cardinality(written)

\* C15: Publish does not raise, and the outcome of the stages before Enrich is
\* recoverable from its summary: the summary carries the status the Transform
\* op of the run reported.
C15_PublishReportsAllStages ==
    /\ ~Raised(Publish)
    /\ Emitted(Publish) =>
            Get(output[Publish], "dbt_status", None) = transform_status

\* The keys under which a summary may carry its status, and the values a
\* status takes.
StatusKeys == {"status", "dbt_status", "yolo_status", "api_status"}

StatusValues == {"success", "failed", "skipped", "no_files"}

\* C16: every summary a stage has emitted carries a status (under `status` or
\* the stage's own status key) that is one of success, failed, skipped,
\* no_files, and a failed summary carries an error string.
C16_EverySummaryHasStatus ==
    \A op \in Range(Stages) :
        output[op] # NoSummary =>
            \E k \in StatusKeys \cap DOMAIN output[op] :
                /\ output[op][k] \in StatusValues
                /\ output[op][k] = "failed" => "error" \in DOMAIN output[op]

\* C17: the Publish summary repeats the Enrich summary it was handed:
\* total_processed is its detected_images (0 when Enrich was skipped or
\* failed), and the category counts and the enrich status are equal.
C17_PublishRepeatsEnrich ==
    Emitted(Publish) =>
        /\ input[Publish] # NoSummary
        /\ output[Publish].total_processed = input[Publish].detected_images
        /\ output[Publish].category_counts = input[Publish].category_counts
        /\ output[Publish].yolo_status = input[Publish].yolo_status
        /\ input[Publish].yolo_status \in {"skipped", "failed"} =>
                output[Publish].total_processed = 0

C17_Witness ==
    /\ Emitted(Publish)
    /\ input[Publish].yolo_status = "success"
    /\ output[Publish].total_processed > 0
    /\ DOMAIN output[Publish].category_counts # {}

(***************************************************************************)
(* The manifest                                                            *)
(***************************************************************************)
Written(d) == last_write[d] # NoWrite

\* C19: for any counts and any extra metadata, the manifest written holds the
\* sum of the counts as total_messages and the counts mapping as channels.
C19_ManifestTotalsTheCounts ==
    \A d \in Dates :
        Written(d) =>
            /\ datalake[d].total_messages = Sum(last_write[d].channel_message_counts)
            /\ datalake[d].channels = last_write[d].channel_message_counts

\* C20: the manifest of a date is the payload of the latest write for that
\* date and nothing of the manifests it replaced (no manifest before the
\* first write), and a write leaves the manifests of the other dates as they
\* were.
C20_ManifestOverwrittenWholesale ==
    /\ [](\A d \in Dates :
            datalake[d] =
                IF Written(d)
                THEN write_manifest(NoManifest, d, last_write[d].channel_message_counts,
                                    last_write[d].extra)
                ELSE NoManifest)
    /\ [][Cardinality({d \in Dates : datalake'[d] # datalake[d]}) <= 1]_vars

\* A manifest that named a channel was replaced by one that does not, while
\* the other date holds a manifest.
C20_Witness ==
    \E d \in Dates :
        /\ Written(d)
        /\ ~(last_write[d].replaced \subseteq DOMAIN datalake[d].channels)
        /\ \E o \in Dates \ {d} : Written(o) /\ DOMAIN datalake[o].channels # {}

(***************************************************************************)
(* The normalizer                                                          *)
(***************************************************************************)
\* C18: normalize_record is total on mappings: it does not raise, the record
\* it returns holds every required key, and each of views, forwards, replies,
\* channel_id and message_id is a non-negative integer.
C18_NormalizerIsTotal ==
    normalized # Pending =>
        /\ "raised" \notin DOMAIN normalized
        /\ Range(required_keys) \subseteq DOMAIN normalized
        /\ \A f \in int_fields : normalized[f].t = "int" /\ normalized[f].v >= 0


(***************************************************************************)
(* Connections, sub-commands, working directory, per-file failures         *)
(***************************************************************************)
\* C22: the warehouse connection of Load and of Enrich is opened inside the
\* stage and released before the stage returns or raises, on the success path
\* and on the exception path alike: no stage holds an open connection at a
\* stage boundary or during a retry delay.
C22_NoConnectionOutlivesItsStage == \A op \in Ops : db_open[op] = 0

\* Load connected and returned; Enrich connected and the load of the
\* detections raised inside the with block.
C22_Witness ==
    /\ Emitted(Enrich)
    /\ output[Enrich].yolo_status = "failed"
    /\ Get(output[Enrich], "error", "none") = "load"
    /\ db_connects[Enrich] = 1
    /\ db_connects[Load] = 1

\* C25: the sub-commands of Transform are issued one after the other in the
\* order run, test, docs, each at most once; test is issued only after run
\* exited 0, docs follows test whatever test's exit code, and a non-zero exit
\* of run or of docs is the last sub-command issued.
C25_SubCommandsInOrder ==
    LET n == Len(dbt_log) IN
    /\ n <= Len(commands)
    /\ \A i \in 1..n : dbt_log[i].cmd = commands[i]
    /\ \A i \in 1..n : dbt_rc[dbt_log[i].cmd] = dbt_log[i].returncode
    /\ \A c \in Commands :
            dbt_rc[c] # NotIssued => \E i \in 1..n : dbt_log[i].cmd = c
    /\ n >= 2 => dbt_log[1].returncode = 0
    /\ n >= 2 => n = 3
    /\ \A i \in 1..n :
            (dbt_log[i].returncode # 0 /\ dbt_log[i].cmd # "test") => i = n

\* The test sub-command failed and docs was issued after it.
C25_Witness ==
    /\ Emitted(Transform)
    /\ Len(dbt_log) = 3
    /\ dbt_log[2].returncode = 1
    /\ dbt_log[3].cmd = "docs"

\* The records of the files of content d, as the loader counts them.
FileRecords(files) ==
    Sum([d \in FileDatas |-> files[d] * Len(load_json(d))])

\* C27: a file of the listing that fails to load is absorbed: Load neither
\* raises nor is retried because of it, the other files are still loaded, and
\* loaded_records is the sum of the record counts of exactly the files that
\* loaded.
C27_FileFailureIsAbsorbed ==
    /\ failed_files > 0 => (Emitted(Load) /\ output[Load].status = "success")
    /\ (Emitted(Load) /\ output[Load].status = "success") =>
        /\ output[Load].loaded_records = FileRecords(loaded_files)
        /\ Sum(loaded_files) + failed_files
                = Min(Sum(json_files(partition, manifest, archive)), FILE_LIMIT)
        /\ \A d \in FileDatas :
                loaded_files[d] > 0 => Range(d.items) \subseteq presented

\* One file failed, a channel file loaded and was counted.
C27_Witness ==
    /\ Emitted(Load)
    /\ failed_files > 0
    /\ \E d \in FileDatas : d.kind = "list" /\ loaded_files[d] > 0
    /\ output[Load].loaded_records > 0

\* C29: Transform and the targeted dbt re-run of Enrich restore the working
\* directory of the process on every termination: after either stage the
\* working directory is the one the process was launched in.
C29_WorkingDirectoryRestored == cwd = launch_dir

\* Transform ended in its handler and the dbt re-run of Enrich raised.
C29_Witness ==
    /\ Emitted(Enrich)
    /\ transform_status = "failed"
    /\ Get(output[Enrich], "error", "none") = "dbt_launch"
    /\ db_connects[Enrich] = 1


(***************************************************************************)
(* Replayed enrichment                                                     *)
(***************************************************************************)
\* The rows of category k that the loads of detections executed so far have
\* been handed, each frame counted as often as it was loaded.
RowsHandedOver(k) ==
    Sum([frame \in FrameCountsSet |-> frame_loads[frame] * frame[k]])

C26_State == \A k \in Categories : image_detections[k] = RowsHandedOver(k)

C26_Step ==
    (status[Enrich] = "running" /\ status'[Enrich] # "running")
        => telegram_messages' = telegram_messages

\* C26: the load of detections is not idempotent: every execution inserts
\* every row of its frame, so k executions over the same images leave k copies
\* of each detection row; the enrichment stage leaves the message table as it
\* was.
C26_DetectionsAccumulate == []C26_State /\ [][C26_Step]_vars

\* The same non-empty frame was loaded by two runs and the table holds both
\* copies next to a message table that is not empty.
C26_Witness ==
    /\ run = 2
    /\ Emitted(Enrich)
    /\ RowCount(telegram_messages) > 0
    /\ \E frame \in FrameCountsSet :
            /\ Sum(frame) > 0
            /\ frame_loads[frame] = 2
            /\ image_detections = [k \in Categories |-> 2 * frame[k]]


(***************************************************************************)
(* Media, throttling and channel attribution in the scraper                *)
(***************************************************************************)
\* Every message the run holds: collected, written or gathered for export.
EmittedMessages ==
    Range(messages) \cup Range(combined_rows) \cup Range(csv)
        \cup UNION {Range(partition[c]) : c \in Channels}

DownloadFailed == last_post.media /\ last_post.download # "ok"

C23_State ==
    /\ \A m \in EmittedMessages : m.file_path # None => m.media_type # None
    /\ (last_post # NoPost /\ ~last_post.skipped) =>
        /\ messages # <<>>
        /\ messages[Len(messages)].message_id = last_post.id
        /\ messages[Len(messages)].file_path # None
                <=> (last_post.media /\ last_post.download = "ok")
        /\ DownloadFailed => messages[Len(messages)].file_path = None

C23_Step ==
    (last_post' # last_post /\ last_post' # NoPost)
        => /\ pc' = "iter_messages"
           /\ raised' = raised
           /\ at_signal' = at_signal

\* C23: a failed media download is a per-message error that stops nothing:
\* the message is emitted with file_path null and the enumeration goes on with
\* the next post; an emitted message has a file_path only when its post had
\* media and the download succeeded.
C23_DownloadFailureIsNotFatal == []C23_State /\ [][C23_Step]_vars

\* A download failed, its message was emitted without a path and written to
\* the channel's file, and the run went on to a channel whose download
\* succeeded.
C23_Witness ==
    /\ Completed
    /\ \E c \in Channels :
        /\ Len(partition[c]) = MaxPosts
        /\ partition[c][1].media_type # None
        /\ partition[c][1].file_path = None
        /\ \E d \in Channels \ {c} :
            /\ partition[d] # <<>>
            /\ partition[d][1].file_path # None

\* C24: every throttle signal, at whichever call it is raised, suspends the
\* scraper for the signalled wait before the next request to the upstream:
\* no request is issued while a signalled wait has not been slept.
C24_NoRequestBeforeWaitElapsed ==
    pc \in {"get_entity", "iter_messages"} => slept = signalled

\* C30: in every emitted message channel_username and channel_title are the
\* entity's, or the configured channel identifier when the entity has none:
\* neither is ever empty.
C30_AttributionFallsBack ==
    \A c \in Channels :
        \A m \in Range(partition[c]) :
            /\ m.channel_username \in {"username", c}
            /\ m.channel_title \in {"title", c}
            /\ m.channel_username # ""
            /\ m.channel_title # ""

\* The records of the channel's JSON file of the date (none: no file).
JsonRecords(c) == Len(partition[c])

\* C28: after a completed run of the scraper every configured channel has a
\* manifest entry, the entry of a channel is the number of records of the
\* channel's JSON file (no file when it is 0), and total_messages is the number
\* of rows of the combined export.
C28_StoreIsSelfConsistent ==
    Completed =>
        /\ DOMAIN manifest.channels = Channels
        /\ \A c \in Channels : manifest.channels[c] = JsonRecords(c)
        /\ manifest.total_messages = Len(csv)

(***************************************************************************)
(* The combined export                                                     *)
(***************************************************************************)
C21_Step ==
    export_call'.rows = <<>> =>
        /\ export_call'.returned = ""
        /\ processed' = processed

C21_State ==
    (export_call # NoCall /\ export_call.rows = <<>>) =>
        /\ export_call.returned = ""
        /\ processed[export_call.date_str] = export_call.found

\* C21: a call of the combined export with no rows returns the empty path and
\* leaves the file system as it was: no export file and no processed
\* partition directory is created, and an export already there for the date
\* is not modified.
C21_EmptyExportIsNoOp == []C21_State /\ [][C21_Step]_vars

\* A call without rows for a date that has no partition, after one for a date
\* whose export stayed.
C21_Witness ==
    /\ export_call # NoCall
    /\ export_call.rows = <<>>
    /\ export_call.found = NoExport
    /\ processed[export_call.date_str] = NoExport
    /\ \E d \in Dates : processed[d].csv # <<>>

====
